---- MODULE Spec2Model ----
(***************************************************************************)
(* Model of streamlit_app.py: the evidence-item dashboard.                 *)
(*                                                                         *)
(* The sheet is a grid of text cells.  load_data turns it into a table     *)
(* (header disambiguation, synthesized columns, progress clamp, deadline   *)
(* parse, _row_id); main classifies, filters, sorts, lets the user edit    *)
(* the view and writes the whole table back; generate_official_report      *)
(* aggregates the filtered view.                                           *)
(*                                                                         *)
(* Text.  TLA+ strings are ASCII, so the Korean literals of the source are *)
(* written by their meaning:                                               *)
(*   담당자 "owner"      진행상태 "status"     진행률 "progress"            *)
(*   자료링크 "link"     마감일 "deadline"     비고 "notes"                 *)
(*   제출자료(예시) "example"   평가영역 "area"   표시등 "indicator"        *)
(*   표시등_순위 "indicator_rank"                                          *)
(*   중단 "halted"  이슈 "issue"  문제 "problem"  보류 "on-hold"            *)
(*   지연 "delayed" 늦음 "late"   미지정 "unassigned"  전체 "ALL"           *)
(*   🔴 "RISK"  🟡 "WARNING"  🔵 "OK"                                       *)
(*                                                                         *)
(* Values.  A pandas cell is a tagged record so that cells of different    *)
(* Python types can be compared (a str never equals an int):               *)
(*   Str(s) a str, Num(n) an int, Ts(t) a Timestamp, NaT.                  *)
(* A Timestamp is counted in half days, t = 2*day + h: h = 0 is midnight   *)
(* and h = 1 a time of day after midnight (15:30).  A day is the day of    *)
(* January 2025, which is what FormatDate prints.                          *)
(***************************************************************************)
EXTENDS Integers, Sequences, FiniteSets, TLC

VARIABLES
    store,      \* the worksheet: the grid ws.get_all_values() returns
    cache,      \* st.cache_data's entry for load_data, or NoCache
    pc,         \* per session: where its run of main() stands
    df,         \* per session: the table load_data returned to this run, classified
    nsaves,     \* history: saves done so far, the version of the sheet
    ver,        \* history: per session, the version of the sheet its table was read from
    lastSave,   \* history: the last save (who, from which version, the sheet before it,
                \* the table the saver held and the grid its editor returned)
    today,      \* date.today(), a day number
    arg,        \* the input of the function applied (function specifications)
    out         \* its result

vars == <<store, cache, pc, df, nsaves, ver, lastSave, today, arg, out>>

(***************************************************************************)
(* Bounds                                                                  *)
(***************************************************************************)
MaxRows == 2        \* data rows of a sheet
MaxCols == 3        \* header cells of a sheet in the header specification
MaxEdits == 1       \* cells a session edits in one run
MaxSaves == 2       \* saves in one behaviour
MaxNum == 150       \* largest integer literal a progress cell is parsed from
MaxDay == 20        \* largest day of the month a deadline cell is parsed from

(***************************************************************************)
(* Values                                                                  *)
(***************************************************************************)
Str(s) == [k |-> "str", s |-> s, n |-> 0]
Num(n) == [k |-> "int", s |-> "", n |-> n]
Ts(t) == [k |-> "ts", s |-> "", n |-> t]
NaT == [k |-> "NaT", s |-> "", n |-> 0]
NaN == [k |-> "NaN", s |-> "", n |-> 0]
\* a float, in tenths: clip and astype(int) act on it
Float(tenths) == [k |-> "float", s |-> "", n |-> tenths]

\* str.strip() on the texts of the model that carry white space
Strip(s) ==
    CASE s = " " -> ""
      [] s = " kim " -> "kim"
      [] s = " on-hold " -> "on-hold"
      [] s = " a " -> "a"
      [] OTHER -> s

\* str(int)
IntToStr(n) == ToString(n)

Pad2(n) == IF n < 10 THEN "0" \o ToString(n) ELSE ToString(n)

\* Timestamp.strftime("%Y-%m-%d"): the day, the time of day dropped
FormatDate(t) == "2025-01-" \o Pad2(t \div 2)

\* the text of a Timestamp with its time of day, as a sheet shows it
FormatDateTime(t) ==
    IF t % 2 = 0 THEN FormatDate(t) ELSE FormatDate(t) \o " 15:30"

NumLiterals == [s \in {IntToStr(n) : n \in (0 - MaxNum) .. MaxNum} |->
                  CHOOSE n \in (0 - MaxNum) .. MaxNum : IntToStr(n) = s]

\* pd.to_numeric(., errors="coerce") on one cell
to_numeric(v) ==
    CASE v.k = "int" -> Float(10 * v.n)
      [] v.k = "float" -> v
      [] v.k = "str" ->
            IF v.s \in DOMAIN NumLiterals THEN Float(10 * NumLiterals[v.s])
            ELSE IF v.s = "70.5" THEN Float(705)
            ELSE NaN
      [] OTHER -> NaN

\* .fillna(0).clip(0, 100).astype(int) on one cell
fill_clip_int(v) ==
    LET filled == IF v.k = "float" THEN v.n ELSE 0
        clipped == IF filled < 0 THEN 0 ELSE IF filled > 1000 THEN 1000 ELSE filled
    IN  Num(clipped \div 10)

DateLiterals == [s \in {FormatDateTime(t) : t \in 2 .. (2 * MaxDay + 1)} |->
                   CHOOSE t \in 2 .. (2 * MaxDay + 1) : FormatDateTime(t) = s]

\* pd.to_datetime(., errors="coerce") on one cell
to_datetime(v) ==
    CASE v.k = "ts" -> v
      [] v.k = "str" ->
            IF v.s \in DOMAIN DateLiterals THEN Ts(DateLiterals[v.s]) ELSE NaT
      [] OTHER -> NaT

\* str(x) as DataFrame.astype(str) applies it
astype_str(v) ==
    CASE v.k = "str" -> v.s
      [] v.k = "int" -> IntToStr(v.n)
      [] v.k = "ts" -> FormatDateTime(v.n)
      [] v.k = "NaT" -> "NaT"
      [] OTHER -> "nan"

(***************************************************************************)
(* Sequences                                                               *)
(***************************************************************************)
Range(s) == {s[i] : i \in DOMAIN s}

IndexOf(s, x) == IF x \in Range(s) THEN CHOOSE i \in DOMAIN s : s[i] = x /\ \A j \in 1 .. (i - 1) : s[j] # x ELSE 0

SelectIdx(s, keep(_)) ==
    LET F[i \in 0 .. Len(s)] ==
            IF i = 0 THEN <<>>
            ELSE LET prev == F[i - 1]
                 IN  IF keep(i) THEN Append(prev, s[i]) ELSE prev
    IN  F[Len(s)]

(***************************************************************************)
(* Tables: a DataFrame is its column names and its rows of cells           *)
(***************************************************************************)
EmptyDF == [columns |-> <<>>, data |-> <<>>]

HasCol(t, c) == c \in Range(t.columns)

\* row[c] / row.get(c): the cell of the first column named c
Cell(t, r, c) == t.data[r][IndexOf(t.columns, c)]

\* df[c] = f(df[c]) cell by cell
MapCol(t, c, f(_)) ==
    [t EXCEPT !.data = [r \in DOMAIN t.data |->
        [j \in DOMAIN t.columns |-> IF t.columns[j] = c THEN f(t.data[r][j]) ELSE t.data[r][j]]]]

\* df[c] = values: a new last column, or an existing one overwritten
SetCol(t, c, val(_)) ==
    IF HasCol(t, c)
    THEN [t EXCEPT !.data = [r \in DOMAIN t.data |->
            [j \in DOMAIN t.columns |-> IF t.columns[j] = c THEN val(r) ELSE t.data[r][j]]]]
    ELSE [columns |-> Append(t.columns, c),
          data |-> [r \in DOMAIN t.data |-> Append(t.data[r], val(r))]]

\* df[[c1, c2, ...]] and df.drop(columns=...): the columns whose position keep() accepts
KeepCols(t, keep(_)) ==
    [columns |-> SelectIdx(t.columns, keep),
     data |-> [r \in DOMAIN t.data |-> SelectIdx(t.data[r], keep)]]

\* df[mask]: the rows whose position keep() accepts
KeepRows(t, keep(_)) == [t EXCEPT !.data = SelectIdx(t.data, keep)]

(***************************************************************************)
(* load_data                                                               *)
(***************************************************************************)
RequiredCols == <<"owner", "status", "progress", "link", "deadline", "notes", "example">>

\* the names of the model that str.startswith("Unnamed") accepts
IsUnnamed(name) ==
    name \in {"Unnamed: 0"} \cup {"Unnamed: 0_" \o ToString(k) : k \in 2 .. (MaxCols + 1)}

\* lines 60-71: blank -> col_{idx+1}; a name seen count > 0 times before -> base_{count+1}
DedupHeader(raw_header) ==
    LET Get(seen, base) == IF base \in DOMAIN seen THEN seen[base] ELSE 0
        F[i \in 0 .. Len(raw_header)] ==
            IF i = 0 THEN [header |-> <<>>, seen |-> <<>>]
            ELSE LET prev == F[i - 1]
                     h == Strip(raw_header[i])
                     base == IF h = "" THEN "col_" \o ToString(i) ELSE h
                     count == Get(prev.seen, base)
                     name == IF count > 0 THEN base \o "_" \o ToString(count + 1) ELSE base
                 IN  [header |-> Append(prev.header, name),
                      seen |-> (base :> (count + 1)) @@ prev.seen]
    IN  F[Len(raw_header)].header

\* lines 73-74: the frame of the data rows, the "Unnamed" columns dropped
RawFrame(values) ==
    LET header == DedupHeader(values[1])
        t == [columns |-> header,
              data |-> [r \in 1 .. (Len(values) - 1) |->
                          [j \in DOMAIN header |-> Str(values[r + 1][j])]]]
    IN  KeepCols(t, LAMBDA j : ~IsUnnamed(header[j]))

\* lines 76-78: a missing expected column is added, every cell ""
AddMissing(t) ==
    LET F[i \in 0 .. Len(RequiredCols)] ==
            IF i = 0 THEN t
            ELSE LET prev == F[i - 1]
                 IN  IF HasCol(prev, RequiredCols[i]) THEN prev
                     ELSE SetCol(prev, RequiredCols[i], LAMBDA r : Str(""))
    IN  F[Len(RequiredCols)]

\* a faulty variant: progress parsed and not clamped
NormalizeProgressNoClip(t) ==
    MapCol(t, "progress", LAMBDA v : LET f == to_numeric(v)
                                     IN  Num(IF f.k = "float" THEN f.n \div 10 ELSE 0))

\* lines 80-85
NormalizeProgress(t) == MapCol(t, "progress", LAMBDA v : fill_clip_int(to_numeric(v)))

\* line 87
NormalizeDeadline(t) == MapCol(t, "deadline", to_datetime)

\* lines 89-90: reset_index inserts the old index as the first column, named "index",
\* or "level_0" when the frame has a column "index"; rename then renames every column
\* named "index"
ResetIndex(t) ==
    LET name == IF HasCol(t, "index") THEN "level_0" ELSE "index"
        u == [columns |-> <<name>> \o t.columns,
              data |-> [r \in DOMAIN t.data |-> <<Num(r - 1)>> \o t.data[r]]]
    IN  [u EXCEPT !.columns = [j \in DOMAIN u.columns |->
                                 IF u.columns[j] = "index" THEN "_row_id" ELSE u.columns[j]]]

\* lines 53-92: the table of a grid (the worksheet lookup and the captions left out)
load_data(values) ==
    IF values = <<>> THEN EmptyDF
    ELSE ResetIndex(NormalizeDeadline(NormalizeProgress(AddMissing(RawFrame(values)))))

\* df.empty: no rows or no columns
IsEmpty(t) == Len(t.data) = 0 \/ Len(t.columns) = 0

(***************************************************************************)
(* calc_indicator                                                          *)
(***************************************************************************)
danger_states == {"halted", "issue", "problem", "on-hold"}
warning_states == {"delayed", "late"}

\* lines 102-111: the calendar day of the deadline cell; 0 stands for None
DueDate(due) ==
    LET d == IF due.k = "str" THEN to_datetime(due) ELSE due
    IN  IF d.k = "ts" THEN d.n \div 2 ELSE 0

\* a faulty variant: the progress rule is tried after the warning rules
calc_indicator_reordered(progress, status, owner, due, day) ==
    LET st == Strip(status)
        ow == Strip(owner)
        due_date == DueDate(due)
    IN  IF due_date # 0 /\ due_date < day /\ progress < 100 THEN "RISK"
        ELSE IF ow = "" THEN "RISK"
        ELSE IF st \in danger_states THEN "RISK"
        ELSE IF due_date # 0 /\ 0 <= due_date - day /\ due_date - day <= 7 /\ progress < 100
             THEN "WARNING"
        ELSE IF 30 < progress /\ progress <= 70 THEN "WARNING"
        ELSE IF st \in warning_states THEN "WARNING"
        ELSE IF progress <= 30 THEN "RISK"
        ELSE "OK"

\* lines 95-134, on the cells row.get reads and date.today()
calc_indicator(progress, status, owner, due, day) ==
    LET st == Strip(status)
        ow == Strip(owner)
        due_date == DueDate(due)
    IN  IF due_date # 0 /\ due_date < day /\ progress < 100 THEN "RISK"
        ELSE IF ow = "" THEN "RISK"
        ELSE IF st \in danger_states THEN "RISK"
        ELSE IF progress <= 30 THEN "RISK"
        ELSE IF due_date # 0 /\ 0 <= due_date - day /\ due_date - day <= 7 /\ progress < 100
             THEN "WARNING"
        ELSE IF 30 < progress /\ progress <= 70 THEN "WARNING"
        ELSE IF st \in warning_states THEN "WARNING"
        ELSE "OK"

\* line 368: df["indicator"] = df.apply(calc_indicator, axis=1)
Classify(t, day) ==
    SetCol(t, "indicator",
           LAMBDA r : Str(calc_indicator(Cell(t, r, "progress").n, Cell(t, r, "status").s,
                                         Cell(t, r, "owner").s, Cell(t, r, "deadline"), day)))

(***************************************************************************)
(* main: filters, risk-first sort, the view                                *)
(***************************************************************************)
ALL == "ALL"

\* lines 414-444: what each selectbox offers
Options(t, c) ==
    IF ~HasCol(t, c) THEN {ALL}
    ELSE IF c = "owner"
         THEN {ALL} \cup ({Strip(Cell(t, r, c).s) : r \in DOMAIN t.data} \ {""})
         ELSE {ALL} \cup {Cell(t, r, c).s : r \in DOMAIN t.data}

Selections(t) ==
    [area : Options(t, "area"), criterion : Options(t, "criterion"),
     department : Options(t, "department"), owner : Options(t, "owner")]

\* one of lines 447-454: the rows whose raw cell equals the selected value
FilterBy(t, c, selected) ==
    IF selected # ALL /\ HasCol(t, c)
    THEN KeepRows(t, LAMBDA r : Cell(t, r, c) = Str(selected))
    ELSE t

\* lines 446-454
Filtered(t, sel) ==
    FilterBy(FilterBy(FilterBy(FilterBy(t, "area", sel.area), "criterion", sel.criterion),
                      "department", sel.department), "owner", sel.owner)

\* line 456
indicator_rank(ind) ==
    CASE ind = "RISK" -> 0 [] ind = "WARNING" -> 1 [] ind = "OK" -> 2 [] OTHER -> 3

\* lines 462-466: row a sorts before row b (rank, then deadline, NaT last)
SortsBefore(t, a, b) ==
    LET ra == indicator_rank(Cell(t, a, "indicator").s)
        rb == indicator_rank(Cell(t, b, "indicator").s)
        da == to_datetime(Cell(t, a, "deadline"))
        db == to_datetime(Cell(t, b, "deadline"))
    IN  \/ ra < rb
        \/ /\ ra = rb
           /\ da.k = "ts"
           /\ (db.k # "ts" \/ da.n < db.n)

\* lines 456-471: the stable sort of the filtered rows
Sorted(t) ==
    LET Insert(order, r) ==
            LET pos == Cardinality({i \in DOMAIN order : ~SortsBefore(t, r, order[i])})
            IN  SubSeq(order, 1, pos) \o <<r>> \o SubSeq(order, pos + 1, Len(order))
        F[i \in 0 .. Len(t.data)] == IF i = 0 THEN <<>> ELSE LET prev == F[i - 1] IN Insert(prev, i)
        order == F[Len(t.data)]
    IN  [t EXCEPT !.data = [i \in DOMAIN order |-> t.data[order[i]]]]

\* lines 446-471
filtered_sorted(t, sel) ==
    LET f == Filtered(t, sel)
    IN  Sorted(MapCol(SetCol(f, "indicator_rank",
                             LAMBDA r : Num(indicator_rank(Cell(f, r, "indicator").s))),
                      "deadline", to_datetime))

base_cols == <<"indicator", "area", "criterion", "report", "example", "documents",
               "department", "owner", "status", "progress", "link", "deadline", "notes">>

\* lines 545-546 (the columns stay in the table's order: cells are read by name)
view_df(t, sel) ==
    LET fs == filtered_sorted(t, sel)
    IN  KeepCols(fs, LAMBDA j : fs.columns[j] = "_row_id" \/ fs.columns[j] \in Range(base_cols))

\* lines 584-592 and 550-555: the columns the grid does not let the user change
disabled_cols == {"_row_id", "indicator", "area", "criterion", "report", "documents", "department"}

(***************************************************************************)
(* main: the save                                                          *)
(***************************************************************************)
editable_cols == <<"owner", "status", "progress", "link", "deadline", "notes", "example">>

\* line 614: int(row["_row_id"])
RowIdOf(v) ==
    IF v.k = "int" THEN Num(v.n)
    ELSE IF v.k = "str" /\ v.s \in DOMAIN NumLiterals THEN Num(NumLiterals[v.s])
    ELSE NaN

\* lines 609-618: every row of the edited view is copied, editable column by editable
\* column, onto the rows of the table that carry its _row_id
ApplyEdits(t, e) ==
    LET Step(u, i) ==
            LET rid == RowIdOf(Cell(e, i, "_row_id"))
            IN  [u EXCEPT !.data = [r \in DOMAIN u.data |->
                    [j \in DOMAIN u.columns |->
                        IF /\ Cell(u, r, "_row_id") = rid
                           /\ u.columns[j] \in Range(editable_cols)
                           /\ HasCol(e, u.columns[j])
                        THEN Cell(e, i, u.columns[j])
                        ELSE u.data[r][j]]]]
        F[i \in 0 .. Len(e.data)] == IF i = 0 THEN t ELSE LET prev == F[i - 1] IN Step(prev, i)
    IN  F[Len(e.data)]

\* lines 620-626
NormalizeProgressOnSave(t) == MapCol(t, "progress", LAMBDA v : fill_clip_int(to_numeric(v)))

\* lines 628-633: to_datetime, strftime("%Y-%m-%d"), fillna("")
FormatDeadline(t) ==
    MapCol(t, "deadline", LAMBDA v : LET d == to_datetime(v)
                                     IN  IF d.k = "ts" THEN Str(FormatDate(d.n)) ELSE Str(""))

drop_cols == {"_row_id", "indicator", "indicator_rank"}

\* lines 609-636
save_df(t, e) ==
    LET updated == FormatDeadline(NormalizeProgressOnSave(ApplyEdits(t, e)))
    IN  KeepCols(updated, LAMBDA j : updated.columns[j] \notin drop_cols)

\* line 638: the header row, then every row through astype(str)
ToGrid(t) ==
    <<t.columns>> \o [r \in DOMAIN t.data |-> [j \in DOMAIN t.columns |-> astype_str(t.data[r][j])]]

\* a faulty variant: only the rows shown in the view are written, the rest of the sheet kept
data_to_write_patch(t, e, old) ==
    LET full == ToGrid(save_df(t, e))
        ids == {RowIdOf(Cell(e, i, "_row_id")).n : i \in DOMAIN e.data}
    IN  [r \in DOMAIN full |->
            IF r = 1 \/ (r - 2) \in ids \/ r > Len(old) \/ Len(old[1]) # Len(full[1])
            THEN full[r] ELSE old[r]]

\* lines 638-639: the grid handed to ws.update, which becomes the sheet's content
\* (old is the sheet before: the code does not read it)
data_to_write(t, e, old) == ToGrid(save_df(t, e))

(***************************************************************************)
(* Aggregates and generate_official_report                                 *)
(***************************************************************************)
\* the rows of t that keep() accepts, counted: int(mask.sum())
Count(t, keep(_)) == Cardinality({r \in DOMAIN t.data : keep(r)})

RECURSIVE SumTo(_, _, _)
SumTo(t, rows, n) ==
    IF n = 0 THEN 0
    ELSE SumTo(t, rows, n - 1) + (IF n \in rows THEN Cell(t, n, "progress").n ELSE 0)

\* df["progress"].sum() over the rows in rows
SumProgress(t, rows) == SumTo(t, rows, Len(t.data))

\* x / y printed with "{:.1f}" after a scaling by mul: the tenths, rounded half to even
Tenths(x, mul, y) ==
    LET q == (10 * mul * x) \div y
        r == (10 * mul * x) % y
    IN  IF 2 * r > y \/ (2 * r = y /\ q % 2 = 1) THEN q + 1 ELSE q

\* a faulty variant: a finished row past its deadline is counted too
OverdueRowAnyProgress(t, r, day) ==
    LET d == to_datetime(Cell(t, r, "deadline"))
    IN  d.k = "ts" /\ d.n < 2 * day

\* lines 172-174 and 479-481: dates < today_ts and progress < 100
OverdueRow(t, r, day) ==
    LET d == to_datetime(Cell(t, r, "deadline"))
    IN  d.k = "ts" /\ d.n < 2 * day /\ Cell(t, r, "progress").n < 100

\* lines 175-181: today_ts <= dates <= today_ts + 7 days and progress < 100
DueSoonRow(t, r, day) ==
    LET d == to_datetime(Cell(t, r, "deadline"))
    IN  d.k = "ts" /\ d.n >= 2 * day /\ d.n <= 2 * day + 2 * 7 /\ Cell(t, r, "progress").n < 100

IndicatorIs(t, r, ind) == Cell(t, r, "indicator") = Str(ind)

\* lines 473-495: the five metrics of the page, over the filtered and sorted rows
Metrics(t, day) ==
    [op |-> "metrics",
     total |-> Len(t.data),
     done |-> Count(t, LAMBDA r : Cell(t, r, "progress") = Num(100)),
     red |-> Count(t, LAMBDA r : IndicatorIs(t, r, "RISK")),
     yellow |-> Count(t, LAMBDA r : IndicatorIs(t, r, "WARNING")),
     overdue |-> IF HasCol(t, "deadline") THEN Count(t, LAMBDA r : OverdueRow(t, r, day)) ELSE 0]

\* the order of the group keys, which groupby sorts: the code points of the source's
\* strings (white space, then Latin letters, then Hangul: "unassigned" is 미지정)
KeyRank(key) ==
    CASE key = "" -> 0
      [] key = " kim " -> 1
      [] key = "A" -> 2
      [] key = "B" -> 3
      [] key = "kim" -> 4
      [] key = "lee" -> 5
      [] key = "park" -> 6
      [] OTHER -> 7

\* the elements of S in the order Before, a strict total order on S
SortSet(S, Before(_, _)) ==
    [i \in 1 .. Cardinality(S) |->
        CHOOSE x \in S : Cardinality({y \in S : Before(y, x)}) = i - 1]

Line(kind, key, a, b, c) == [kind |-> kind, key |-> key, a |-> a, b |-> b, c |-> c]

max_rows == 20

\* lines 224-277: one line per overdue or due-soon row, at most max_rows of them
UrgentLines(t, day) ==
    LET urgent == IF HasCol(t, "deadline")
                  THEN SelectIdx([r \in DOMAIN t.data |-> r],
                                 LAMBDA r : OverdueRow(t, r, day) \/ DueSoonRow(t, r, day))
                  ELSE <<>>
        shown == SubSeq(urgent, 1, IF Len(urgent) > max_rows THEN max_rows ELSE Len(urgent))
    IN  IF urgent = <<>> THEN <<Line("no_urgent", "", 0, 0, 0)>>
        ELSE <<Line("urgent_head", "", 0, 0, 0)>>
             \o [i \in DOMAIN shown |->
                    Line("urgent", Cell(t, shown[i], "owner").s, Cell(t, shown[i], "progress").n,
                         to_datetime(Cell(t, shown[i], "deadline")).n \div 2,
                         indicator_rank(Cell(t, shown[i], "indicator").s))]
             \o (IF Len(urgent) > max_rows
                 THEN <<Line("more", "", Len(urgent) - max_rows, 0, 0)>> ELSE <<>>)

\* lines 283-295: the mean progress of each area, the largest mean first (equal means in
\* key order)
AreaLines(t) ==
    IF ~HasCol(t, "area") THEN <<Line("no_area", "", 0, 0, 0)>>
    ELSE LET keys == {Cell(t, r, "area").s : r \in DOMAIN t.data}
             rows(k) == {r \in DOMAIN t.data : Cell(t, r, "area").s = k}
             \* mean(a) > mean(b), cross-multiplied
             Larger(a, b) == SumProgress(t, rows(a)) * Cardinality(rows(b))
                             > SumProgress(t, rows(b)) * Cardinality(rows(a))
             Before(a, b) == Larger(a, b) \/ (~Larger(b, a) /\ KeyRank(a) < KeyRank(b))
             order == SortSet(keys, Before)
         IN  [i \in DOMAIN order |->
                Line("area", order[i], Tenths(SumProgress(t, rows(order[i])), 1,
                                              Cardinality(rows(order[i]))), 0, 0)]

\* the group key of a row: line 305, "" replaced by "unassigned" (미지정)
OwnerKey(t, r) == IF Cell(t, r, "owner").s = "" THEN "unassigned" ELSE Cell(t, r, "owner").s

\* lines 303-324: groupby("owner").agg(count, done, mean), one line per group in the
\* order groupby leaves them, which is the order of the keys
OwnerLines(t) ==
    IF ~HasCol(t, "owner") THEN <<Line("no_owner", "", 0, 0, 0)>>
    ELSE LET keys == {OwnerKey(t, r) : r \in DOMAIN t.data}
             rows(k) == {r \in DOMAIN t.data : OwnerKey(t, r) = k}
             Before(a, b) == KeyRank(a) < KeyRank(b)
             order == SortSet(keys, Before)
         IN  [i \in DOMAIN order |->
                Line("owner", order[i], Cardinality(rows(order[i])),
                     Cardinality({r \in rows(order[i]) : Cell(t, r, "progress") = Num(100)}),
                     Tenths(SumProgress(t, rows(order[i])), 1, Cardinality(rows(order[i]))))]

\* lines 190-199: the title block
HeadLines(day) ==
    <<Line("title", "", 0, 0, 0), Line("date", "", day, 0, 0), Line("department", "", 0, 0, 0),
      Line("summary_head", "", 0, 0, 0)>>

\* lines 209-357: the report of a table with rows
FullReport(t, day, total, done, red, yellow, blue, overdue, due_soon) ==
    IF total = 0
    THEN [op |-> "report", error |-> "ZeroDivisionError", lines |-> HeadLines(day)]
    ELSE [op |-> "report", error |-> "",
          lines |->
            HeadLines(day)
            \o <<Line("total", "", total, 0, 0),
                 Line("done", "", done, Tenths(done, 100, total), 0),
                 Line("avg", "", Tenths(SumProgress(t, DOMAIN t.data), 1, total), 0, 0),
                 Line("indicators", "", red, yellow, blue),
                 Line("deadlines", "", overdue, due_soon, 0),
                 Line("urgent_title", "", 0, 0, 0)>>
            \o UrgentLines(t, day)
            \o <<Line("area_title", "", 0, 0, 0)>> \o AreaLines(t)
            \o <<Line("owner_title", "", 0, 0, 0)>> \o OwnerLines(t)
            \o <<Line("recommend_title", "", 0, 0, 0), Line("recommend", "", 1, 0, 0),
                 Line("recommend", "", 2, 0, 0), Line("recommend", "", 3, 0, 0),
                 Line("reporter", "", 0, 0, 0), Line("approval", "", 0, 0, 0)>>]

\* a faulty variant: no early return for an empty table, the percentage is computed
generate_official_report_unguarded(t, day) ==
    LET total == Len(t.data)
    IN  FullReport(t, day, total, 0, 0, 0, 0, 0, 0)

\* lines 140-357
generate_official_report(t, day) ==
    LET total == Len(t.data)
        done == IF total > 0 THEN Count(t, LAMBDA r : Cell(t, r, "progress") = Num(100)) ELSE 0
        red == Count(t, LAMBDA r : IndicatorIs(t, r, "RISK"))
        yellow == Count(t, LAMBDA r : IndicatorIs(t, r, "WARNING"))
        blue == Count(t, LAMBDA r : IndicatorIs(t, r, "OK"))
        overdue == IF HasCol(t, "deadline") THEN Count(t, LAMBDA r : OverdueRow(t, r, day)) ELSE 0
        due_soon == IF HasCol(t, "deadline") THEN Count(t, LAMBDA r : DueSoonRow(t, r, day)) ELSE 0
    IN  IF total = 0
        THEN [op |-> "report", error |-> "",
              lines |-> Append(HeadLines(day), Line("no_items", "", 0, 0, 0))]
        ELSE FullReport(t, day, total, done, red, yellow, blue, overdue, due_soon)

(***************************************************************************)
(* The dashboard: sessions running main() against one sheet and one cache  *)
(***************************************************************************)
Sessions == {"A", "B"}

Today == MaxDay \div 2

NoCache == [valid |-> FALSE, table |-> EmptyDF, ver |-> 0]
NoSave == [by |-> "", ver |-> 0, before |-> <<>>, table |-> EmptyDF, edited |-> EmptyDF]
NoArg == [op |-> ""]

MainHeader == <<"area", "owner", "status", "progress", "deadline">>

\* the data rows the sheets of the model are made of
SheetRows ==
    << <<"A", " kim ", "on-hold", "150", FormatDateTime(2 * (Today + 7) + 1)>>,
       <<"B", "lee", "delayed", "abc", "soon">> >>

\* the sheets a run starts from: the header and at most MaxRows consecutive rows
Sheets ==
    {<<MainHeader>> \o SubSeq(SheetRows, a, b) :
        <<a, b>> \in {x \in (1 .. Len(SheetRows)) \X (0 .. Len(SheetRows)) :
                        x[2] - x[1] < MaxRows /\ (x[2] >= x[1] \/ x[1] = 1)}}

\* what the grid lets the user put in a cell of an editable column
EditValues(c) ==
    CASE c = "progress" -> {Num(150)}
      [] c = "deadline" -> {Ts(2 * (Today + 3))}
      [] c = "owner" -> {Str("park")}
      [] c \in {"notes", "example"} -> {Str("memo")}
      [] OTHER -> {}

\* st.data_editor: the view with at most MaxEdits cells of editable columns changed
Edits(view) ==
    LET cells(e) == {<<r, j, v>> \in (DOMAIN e.data) \X (DOMAIN e.columns) \X
                                     UNION {EditValues(c) : c \in Range(editable_cols)} :
                        /\ e.columns[j] \notin disabled_cols
                        /\ v \in EditValues(e.columns[j])}
        one(e) == {e} \cup {[e EXCEPT !.data[x[1]][x[2]] = x[3]] : x \in cells(e)}
        F[i \in 0 .. MaxEdits] == IF i = 0 THEN {view} ELSE LET prev == F[i - 1] IN UNION {one(e) : e \in prev}
    IN  F[MaxEdits]

\* every (selection, edited view) a session holding table t can press save with
SaveInputs(t) ==
    UNION {{[sel |-> sel, edited |-> e] : e \in Edits(view_df(t, sel))} : sel \in Selections(t)}

Init ==
    /\ store \in Sheets
    /\ cache = NoCache
    /\ pc = [c \in Sessions |-> "start"]
    /\ df = [c \in Sessions |-> EmptyDF]
    /\ nsaves = 0
    /\ ver = [c \in Sessions |-> 0]
    /\ lastSave = NoSave
    /\ today = Today
    /\ arg = NoArg
    /\ out = NoArg

\* line 363, the cached table still valid; lines 364-368
LoadHit(c) ==
    /\ pc[c] = "start"
    /\ cache.valid
    /\ df' = [df EXCEPT ![c] = IF IsEmpty(cache.table) THEN EmptyDF
                               ELSE Classify(cache.table, today)]
    /\ pc' = [pc EXCEPT ![c] = IF IsEmpty(cache.table) THEN "start" ELSE "loaded"]
    /\ ver' = [ver EXCEPT ![c] = cache.ver]
    /\ UNCHANGED <<store, cache, nsaves, lastSave, today, arg, out>>

\* line 363, no cached table: the sheet is read and the result cached; lines 364-368
LoadMiss(c) ==
    /\ pc[c] = "start"
    /\ ~cache.valid
    /\ LET t == load_data(store)
       IN  /\ cache' = [valid |-> TRUE, table |-> t, ver |-> nsaves]
           /\ df' = [df EXCEPT ![c] = IF IsEmpty(t) THEN EmptyDF ELSE Classify(t, today)]
           /\ pc' = [pc EXCEPT ![c] = IF IsEmpty(t) THEN "start" ELSE "loaded"]
    /\ ver' = [ver EXCEPT ![c] = nsaves]
    /\ UNCHANGED <<store, nsaves, lastSave, today, arg, out>>

\* a faulty variant: the cached table survives the save
CacheAfterSaveKept(c) == c

\* line 641: st.cache_data.clear()
CacheAfterSave(c) == NoCache

\* lines 608-647: the user picked filters, edited the grid and pressed save; the sheet is
\* overwritten, the cache cleared and the script run again
Save(c) ==
    /\ pc[c] = "loaded"
    /\ nsaves < MaxSaves
    /\ \E x \in SaveInputs(df[c]) :
          /\ store' = data_to_write(df[c], x.edited, store)
          /\ lastSave' = [by |-> c, ver |-> ver[c], before |-> store,
                          table |-> df[c], edited |-> x.edited]
    /\ cache' = CacheAfterSave(cache)
    /\ nsaves' = nsaves + 1
    /\ pc' = [pc EXCEPT ![c] = "start"]
    /\ df' = [df EXCEPT ![c] = EmptyDF]
    /\ UNCHANGED <<ver, today, arg, out>>

\* any other interaction: the script runs again from the top, nothing is written
Rerun(c) ==
    /\ pc[c] = "loaded"
    /\ pc' = [pc EXCEPT ![c] = "start"]
    /\ df' = [df EXCEPT ![c] = EmptyDF]
    /\ UNCHANGED <<store, cache, nsaves, ver, lastSave, today, arg, out>>

\* line 28: the cached table is older than ttl=60 seconds
Expire ==
    /\ cache.valid
    /\ cache' = NoCache
    /\ UNCHANGED <<store, pc, df, nsaves, ver, lastSave, today, arg, out>>

Next ==
    \/ \E c \in Sessions : LoadHit(c)
    \/ \E c \in Sessions : LoadMiss(c)
    \/ \E c \in Sessions : Save(c)
    \/ \E c \in Sessions : Rerun(c)
    \/ Expire

Spec == Init /\ [][Next]_vars

(***************************************************************************)
(* calc_indicator on its own: every row of a bounded domain                *)
(***************************************************************************)
ProgressValues == {0, 1, 25, 29, 30, 31, 50, 69, 70, 71, 99, 100}
StatusValues == danger_states \cup warning_states \cup {"", " on-hold ", "done"}
OwnerValues == {"", " ", "kim", " kim "}
DueValues(day) == {NaT} \cup {Ts(t) : t \in (2 * (day - 2)) .. (2 * (day + 9) + 1)}

InitIndicator ==
    /\ today \in {Today - 1, Today}
    /\ arg \in [op : {"calc_indicator"}, progress : ProgressValues, status : StatusValues,
                owner : OwnerValues, due : DueValues(Today)]
    /\ out = NoArg
    /\ store = <<>>
    /\ cache = NoCache
    /\ pc = [c \in Sessions |-> "start"]
    /\ df = [c \in Sessions |-> EmptyDF]
    /\ nsaves = 0
    /\ ver = [c \in Sessions |-> 0]
    /\ lastSave = NoSave

\* line 368, for one row
CalcIndicator ==
    /\ arg.op = "calc_indicator"
    /\ out = NoArg
    /\ out' = [op |-> "calc_indicator",
               indicator |-> calc_indicator(arg.progress, arg.status, arg.owner, arg.due, today)]
    /\ UNCHANGED <<store, cache, pc, df, nsaves, ver, lastSave, today, arg>>

NextIndicator == CalcIndicator

SpecIndicator == InitIndicator /\ [][NextIndicator]_vars

(***************************************************************************)
(* load_data on its own: every header of a bounded domain                  *)
(***************************************************************************)
HeaderNames == {"", "a", " a ", "a_2", "col_2", "index", "Unnamed: 0"}

Headers == UNION {[1 .. n -> HeaderNames] : n \in 1 .. MaxCols}

\* the grid with header h and n data rows; the cell of row r and column j is its place
GridOf(h, n) ==
    <<h>> \o [r \in 1 .. n |-> [j \in DOMAIN h |-> "r" \o ToString(r) \o "c" \o ToString(j)]]

InitHeader ==
    /\ today = Today
    /\ \E h \in Headers, n \in 0 .. MaxRows : arg = [op |-> "load_data", values |-> GridOf(h, n)]
    /\ out = NoArg
    /\ store = <<>>
    /\ cache = NoCache
    /\ pc = [c \in Sessions |-> "start"]
    /\ df = [c \in Sessions |-> EmptyDF]
    /\ nsaves = 0
    /\ ver = [c \in Sessions |-> 0]
    /\ lastSave = NoSave

\* lines 53-92 on the grid: the header as disambiguated and the table returned
LoadData ==
    /\ arg.op = "load_data"
    /\ out = NoArg
    /\ out' = [op |-> "load_data", header |-> DedupHeader(arg.values[1]),
               table |-> load_data(arg.values)]
    /\ UNCHANGED <<store, cache, pc, df, nsaves, ver, lastSave, today, arg>>

\* lines 368 and 446-546 on the table returned: the view under some selection
ViewTable ==
    /\ out.op = "load_data"
    /\ ~IsEmpty(out.table)
    /\ LET t == Classify(out.table, today)
       IN  \E sel \in Selections(t) :
              out' = [op |-> "view", table |-> t, view |-> view_df(t, sel)]
    /\ UNCHANGED <<store, cache, pc, df, nsaves, ver, lastSave, today, arg>>

NextHeader == LoadData \/ ViewTable

SpecHeader == InitHeader /\ [][NextHeader]_vars

(***************************************************************************)
(* The metrics and the report on their own: every view of a bounded domain *)
(***************************************************************************)
Day(d) == FormatDateTime(2 * d)
DayAt(d) == FormatDateTime(2 * d + 1)

\* rows for the sheets of several rows
ReportShapes ==
    { <<"A", "kim", "", "20", Day(Today - 1)>>,
      <<"B", "lee", "", "90", Day(Today + 7)>>,
      <<"A", "", "delayed", "100", DayAt(Today + 7)>>,
      <<"B", " kim ", "late", "80", "">>,
      <<"A", "lee", "on-hold", "50", Day(Today)>>,
      <<"B", "kim", "", "71", Day(Today + 8)>> }

\* rows for the sheets of one row
BroadShapes ==
    {<<"A", o, st, p, d>> :
        o \in {"kim", ""}, st \in {"", "on-hold", "delayed"},
        p \in {"30", "31", "70", "71", "100"},
        d \in {"", Day(Today - 1), DayAt(Today - 1), Day(Today), Day(Today + 7),
               DayAt(Today + 7), Day(Today + 8)}}

ReportSheets ==
    {<<MainHeader>> \o rows : rows \in UNION {[1 .. m -> ReportShapes] : m \in 0 .. MaxRows}}
    \cup {<<MainHeader, row>> : row \in BroadShapes}

InitReport ==
    /\ today = Today
    /\ \E sheet \in ReportSheets :
         LET t == Classify(load_data(sheet), today)
         IN  \E sel \in Selections(t) :
                arg = [op |-> "view", sel |-> sel, table |-> filtered_sorted(t, sel)]
    /\ out = NoArg
    /\ store = <<>>
    /\ cache = NoCache
    /\ pc = [c \in Sessions |-> "start"]
    /\ df = [c \in Sessions |-> EmptyDF]
    /\ nsaves = 0
    /\ ver = [c \in Sessions |-> 0]
    /\ lastSave = NoSave

\* lines 473-495
RenderMetrics ==
    /\ arg.op = "view"
    /\ out = NoArg
    /\ out' = Metrics(arg.table, today)
    /\ UNCHANGED <<store, cache, pc, df, nsaves, ver, lastSave, today, arg>>

\* lines 516-517: the report button
GenerateReport ==
    /\ arg.op = "view"
    /\ out = NoArg
    /\ out' = generate_official_report(arg.table, today)
    /\ UNCHANGED <<store, cache, pc, df, nsaves, ver, lastSave, today, arg>>

NextReport == RenderMetrics \/ GenerateReport

SpecReport == InitReport /\ [][NextReport]_vars

(***************************************************************************)
(* Properties                                                              *)
(***************************************************************************)

\* the ordered decision list of C1 as <<condition, result>> pairs; the deadline is present
\* when it is a Timestamp, and is compared by its calendar day
C1_Rules(a, day) ==
    LET present == a.due.k = "ts"
        deadline == a.due.n \div 2
        owner == Strip(a.owner)
        status == Strip(a.status)
    IN  << <<present /\ deadline < day /\ a.progress < 100, "RISK">>,
           <<owner = "", "RISK">>,
           <<status \in {"halted", "issue", "problem", "on-hold"}, "RISK">>,
           <<a.progress <= 30, "RISK">>,
           <<present /\ 0 <= deadline - day /\ deadline - day <= 7 /\ a.progress < 100, "WARNING">>,
           <<30 < a.progress /\ a.progress <= 70, "WARNING">>,
           <<status \in {"delayed", "late"}, "WARNING">>,
           <<TRUE, "OK">> >>

C1_FirstMatch(rules) ==
    rules[CHOOSE i \in DOMAIN rules : rules[i][1] /\ \A j \in 1 .. (i - 1) : ~rules[j][1]][2]

\* C1: calc_indicator returns the result of the first matching rule of the ordered
\* decision list; a row with progress 25, status delayed, an owner and no deadline is RISK
C1_IndicatorIsDecisionList ==
    out.op = "calc_indicator" =>
        /\ out.indicator = C1_FirstMatch(C1_Rules(arg, today))
        /\ (arg.progress = 25 /\ arg.status = "delayed" /\ arg.owner = "kim" /\ arg.due = NaT)
              => out.indicator = "RISK"

C1_Witness ==
    /\ out.op = "calc_indicator"
    /\ arg.progress = 25 /\ arg.status = "delayed" /\ arg.owner = "kim" /\ arg.due = NaT
    /\ out.indicator = "RISK"

\* the six fields C2 calls editable
C2_Fields == {"owner", "status", "progress", "link", "deadline", "notes"}

\* the row of table t that carries row id v, or 0
C2_RowOf(t, v) ==
    IF \E r \in DOMAIN t.data : Cell(t, r, "_row_id") = v
    THEN CHOOSE r \in DOMAIN t.data : Cell(t, r, "_row_id") = v
    ELSE 0

\* a value as the table holds it once written and loaded again
C2_Held(c, v) ==
    CASE c = "progress" -> fill_clip_int(to_numeric(v))
      [] c = "deadline" -> to_datetime(v)
      [] OTHER -> v

\* the round trip of one save: before is the loaded table, view what the grid showed,
\* edited what it returned, after the table loaded from the sheet the save wrote
C2_RoundTrip(before, view, edited, after) ==
    /\ Len(after.data) = Len(before.data)
    /\ \A r \in DOMAIN before.data :
         LET id == Cell(before, r, "_row_id")
             a == C2_RowOf(after, id)
             i == C2_RowOf(edited, id)
         IN  /\ a # 0
             /\ \A j \in DOMAIN before.columns :
                  LET c == before.columns[j]
                  IN  c \notin {"_row_id", "indicator"} =>
                        /\ HasCol(after, c)
                        /\ Cell(after, a, c) =
                              IF c \in C2_Fields /\ i # 0 /\ Cell(edited, i, c) # Cell(view, i, c)
                              THEN C2_Held(c, Cell(edited, i, c))
                              ELSE before.data[r][j]

\* C2: load -> edit -> save -> load keeps the editable fields of every row that was not
\* edited, puts the new values on the rows with the same rowId, and keeps every
\* descriptive field, for any filter selection and any edits of the six editable fields
C2_RoundTripKeepsRows ==
    \A c \in Sessions :
        pc[c] = "loaded" =>
            \A x \in SaveInputs(df[c]) :
                LET view == view_df(df[c], x.sel)
                IN  (\A i \in DOMAIN view.data :
                        Cell(x.edited, i, "example") = Cell(view, i, "example"))
                    => C2_RoundTrip(df[c], view, x.edited,
                                    load_data(data_to_write(df[c], x.edited, store)))

\* C3: the cached table is never older than the sheet: whatever load_data returns after a
\* save is the table of the content just written, also within the cache's time to live
C3_ReadAfterWrite ==
    cache.valid => cache.table = load_data(store) /\ cache.ver = nsaves

C3_Witness ==
    /\ nsaves >= 1
    /\ lastSave.by = "A"
    /\ lastSave.before # store
    /\ pc["A"] = "loaded"
    /\ ver["A"] = nsaves
    /\ cache.valid

C4_InRange(t) ==
    \A r \in DOMAIN t.data :
        LET v == Cell(t, r, "progress") IN v.k = "int" /\ v.n >= 0 /\ v.n <= 100

\* what C4 expects of raw progress cells
C4_Expected ==
    { <<"-5", 0>>, <<"0", 0>>, <<"50", 50>>, <<"100", 100>>, <<"101", 100>>, <<"150", 100>>,
      <<"abc", 0>>, <<"", 0>>, <<"70.5", 70>> }

\* C4: progress is an integer in [0,100]: load_data clamps every raw cell and yields 0 for a
\* blank or non-numeric one, and every table loaded and every grid written keeps the range
C4_ProgressInRange ==
    /\ \A x \in C4_Expected :
         LET t == NormalizeProgress([columns |-> <<"progress">>, data |-> << <<Str(x[1])>> >>])
         IN  Cell(t, 1, "progress") = Num(x[2])
    /\ \A c \in Sessions : pc[c] = "loaded" => C4_InRange(df[c])
    /\ cache.valid => C4_InRange(cache.table)
    /\ nsaves > 0 =>
         \A r \in 2 .. Len(store) :
            LET s == store[r][IndexOf(store[1], "progress")]
            IN  s \in DOMAIN NumLiterals /\ NumLiterals[s] \in 0 .. 100

C4_Witness ==
    /\ nsaves > 0
    /\ \E r \in 2 .. Len(store) :
         /\ r <= Len(lastSave.before)
         /\ lastSave.before[r][IndexOf(lastSave.before[1], "progress")] = "abc"
         /\ store[r][IndexOf(store[1], "progress")] = "100"
    /\ \E c \in Sessions : pc[c] = "loaded" /\ ver[c] = nsaves

\* C5: the rowId of each row is its zero-based position among the data rows, so the ids
\* of one load are pairwise distinct integers; a row of the filtered and sorted view
\* carries the rowId, and the cells, of the row of the table it shows
C5_RowIdIsPosition ==
    /\ (out.op = "load_data" /\ out.table # EmptyDF) =>
          /\ HasCol(out.table, "_row_id")
          /\ \A r \in DOMAIN out.table.data : Cell(out.table, r, "_row_id") = Num(r - 1)
    /\ out.op = "view" =>
          \A i \in DOMAIN out.view.data :
             \E r \in DOMAIN out.table.data :
                /\ Cell(out.view, i, "_row_id") = Num(r - 1)
                /\ \A j \in DOMAIN out.view.columns :
                     out.view.data[i][j] = Cell(out.table, r, out.view.columns[j])

C6_DoneLines == {i \in DOMAIN out.lines : out.lines[i].kind = "done"}

\* C6 as stated: for a table of 0 rows the summary renders the done percentage as 0.0%
\* and no division error occurs
C6_EmptyRendersZeroPercent ==
    (out.op = "report" /\ Len(arg.table.data) = 0) =>
        /\ out.error = ""
        /\ \E i \in C6_DoneLines : out.lines[i].b = 0

\* C6 as amended: for a table of 0 rows the summary is the notice that there are no
\* items, no percentage is rendered and no division is evaluated; and no report fails
\* with a division error
C6_EmptyRendersNotice ==
    out.op = "report" =>
        /\ out.error = ""
        /\ (Len(arg.table.data) = 0) =>
              /\ out.lines[Len(out.lines)].kind = "no_items"
              /\ C6_DoneLines = {}
        /\ (Len(arg.table.data) > 0) => C6_DoneLines # {}

C6_Witness ==
    /\ out.op = "report"
    /\ Len(arg.table.data) = 0
    /\ arg.sel.owner # ALL

C7_OwnerLines == SelectSeq(out.lines, LAMBDA l : l.kind = "owner")

\* C7: the per-owner section has one line per owner group (the raw cell, empty as
\* "unassigned") with its count, completed count and mean, in descending order of mean
C7_OwnerLinesDescending ==
    (out.op = "report" /\ Len(arg.table.data) > 0) =>
        LET t == arg.table
            L == C7_OwnerLines
        IN  /\ {L[i].key : i \in DOMAIN L} = {OwnerKey(t, r) : r \in DOMAIN t.data}
            /\ Len(L) = Cardinality({OwnerKey(t, r) : r \in DOMAIN t.data})
            /\ \A i \in DOMAIN L :
                 /\ L[i].a = Cardinality({r \in DOMAIN t.data : OwnerKey(t, r) = L[i].key})
                 /\ L[i].b = Cardinality({r \in DOMAIN t.data :
                                            OwnerKey(t, r) = L[i].key /\ Cell(t, r, "progress").n = 100})
            /\ \A i \in 1 .. (Len(L) - 1) : L[i].c >= L[i + 1].c

\* the columns the grid lets a session edit
C8_Editable == C2_Fields \cup {"example"}

\* a cell as a save writes it
C8_Written(c, v) ==
    CASE c = "progress" -> IntToStr(fill_clip_int(to_numeric(v)).n)
      [] c = "deadline" -> LET d == to_datetime(v) IN IF d.k = "ts" THEN FormatDate(d.n) ELSE ""
      [] OTHER -> astype_str(v)

\* C8: a save replaces the whole sheet by the saving session's own table with its own
\* edits: whatever the other session wrote since that table was loaded, every row of the
\* sheet after the save is the row of the saver's table, with the saver's edits and none
\* of the cells the other session wrote
C8_LastWriteWins ==
    nsaves > 0 =>
        LET t == lastSave.table
            e == lastSave.edited
            cols == SelectSeq(t.columns, LAMBDA c : c \notin {"_row_id", "indicator"})
        IN  /\ store[1] = cols
            /\ Len(store) = Len(t.data) + 1
            /\ \A r \in DOMAIN t.data : \A j \in DOMAIN cols :
                 LET c == cols[j]
                     i == C2_RowOf(e, Cell(t, r, "_row_id"))
                 IN  store[r + 1][j] =
                        C8_Written(c, IF i # 0 /\ c \in C8_Editable /\ HasCol(e, c)
                                      THEN Cell(e, i, c) ELSE Cell(t, r, c))

C8_Cells(grid) == UNION {Range(grid[r]) : r \in 2 .. Len(grid)}

C8_Witness ==
    /\ nsaves = 2
    /\ lastSave.by = "B"
    /\ lastSave.ver = 0
    /\ "park" \in C8_Cells(lastSave.before)
    /\ "park" \notin C8_Cells(store)

\* C9: scanning left to right, a blank header at position i (zero-based) is named
\* col_{i+1}, the k-th occurrence (k >= 2) of a name h becomes h_k, and no two names of
\* the resulting header are the same
C9_HeaderDisambiguated ==
    out.op = "load_data" =>
        LET raw == arg.values[1]
            name(i) == IF Strip(raw[i]) = "" THEN "col_" \o ToString(i) ELSE Strip(raw[i])
            k(i) == Cardinality({j \in 1 .. i : name(j) = name(i)})
        IN  /\ Len(out.header) = Len(raw)
            /\ \A i \in DOMAIN raw :
                 out.header[i] = IF k(i) >= 2 THEN name(i) \o "_" \o ToString(k(i)) ELSE name(i)
            /\ \A i, j \in DOMAIN raw : i # j => out.header[i] # out.header[j]

C10_Line(kind) == out.lines[CHOOSE i \in DOMAIN out.lines : out.lines[i].kind = kind]

\* C10: every row counted as overdue is RISK, every row counted as due soon is RISK or
\* WARNING, no row is counted as both, and the RISK count is at least the overdue count
C10_CountsAgreeWithIndicator ==
    LET t == arg.table
    IN  /\ out.op \in {"metrics", "report"} =>
              \A r \in DOMAIN t.data :
                 /\ OverdueRow(t, r, today) => IndicatorIs(t, r, "RISK")
                 /\ DueSoonRow(t, r, today) => (IndicatorIs(t, r, "RISK") \/ IndicatorIs(t, r, "WARNING"))
                 /\ ~(OverdueRow(t, r, today) /\ DueSoonRow(t, r, today))
        /\ out.op = "metrics" => out.red >= out.overdue
        /\ (out.op = "report" /\ Len(t.data) > 0) =>
              /\ C10_Line("indicators").a >= C10_Line("deadlines").a
              /\ C10_Line("indicators").a + C10_Line("indicators").b
                    >= C10_Line("deadlines").a + C10_Line("deadlines").b

C10_Witness ==
    /\ out.op = "report"
    /\ Len(arg.table.data) > 0
    /\ C10_Line("deadlines").a >= 1
    /\ C10_Line("deadlines").b >= 1

====
